---- MODULE Spec2Model ----
(***************************************************************************)
(* Model of the calculator pipeline of src/src/lib.rs:                     *)
(*   parse_expression -> to_rpn -> evaluate_rpn (evaluate_expression),     *)
(* driven the way src/src/main.rs and src/tests/unit.rs drive it.          *)
(*                                                                         *)
(* A raw token (&str) is a sequence of one-character strings.  An f64 is   *)
(* modelled by the exact rational it denotes, a pair <<n, d>> in lowest    *)
(* terms with d > 0; the inputs are small decimal literals, the alphabet   *)
(* has no exponent, "inf" or "nan" spelling, and -0.0 is identified with   *)
(* 0.0 (Rust's == identifies them too).                                    *)
(***************************************************************************)
EXTENDS Integers, Sequences, FiniteSets, TLC

VARIABLES pc, entry, expression, pi, tokens, parsed, ti, output, operators,
          rpn_tokens, ei, stack, a, b, result

vars == <<pc, entry, expression, pi, tokens, parsed, ti, output, operators,
          rpn_tokens, ei, stack, a, b, result>>

(* ---------------------------- bounds ----------------------------------- *)
MaxRawLen == 3
MaxLen == 4
MaxOps == 2
MaxDirect == 3

(* ---------------------------- f64 as rationals ------------------------- *)
Abs(x) == IF x < 0 THEN -x ELSE x

RECURSIVE Gcd(_, _)
Gcd(x, y) == IF y = 0 THEN x ELSE Gcd(y, x % y)

Norm(n, d) ==
  LET s == IF d < 0 THEN -1 ELSE 1
      g == Gcd(Abs(n), Abs(d))
  IN  <<(s * n) \div g, (s * d) \div g>>

FAdd(x, y) == Norm(x[1] * y[2] + y[1] * x[2], x[2] * y[2])
FSub(x, y) == Norm(x[1] * y[2] - y[1] * x[2], x[2] * y[2])
FMul(x, y) == Norm(x[1] * y[1], x[2] * y[2])
FDiv(x, y) == Norm(x[1] * y[2], x[2] * y[1])
Zero == <<0, 1>>

(* ---------------------------- Token, Error ----------------------------- *)
Number(v) == [type |-> "Number", value |-> v]
Operator(c) == [type |-> "Operator", op |-> c]

Ok(v) == [kind |-> "Ok", value |-> v]
Err(e, msg) == [kind |-> "Err", error |-> e, msg |-> msg]
Panic(msg) == [kind |-> "Panic", msg |-> msg]
None == [kind |-> "None"]

NotEnoughOperandsMsg == <<"Not enough operands for operator">>

(* ---------------------------- str::parse::<f64> ------------------------ *)
Digits == {"0", "1", "2", "3", "4", "5", "6", "7", "8", "9"}

DigitVal(c) ==
  CASE c = "0" -> 0 [] c = "1" -> 1 [] c = "2" -> 2 [] c = "3" -> 3
    [] c = "4" -> 4 [] c = "5" -> 5 [] c = "6" -> 6 [] c = "7" -> 7
    [] c = "8" -> 8 [] c = "9" -> 9

RECURSIVE Pow10(_)
Pow10(k) == IF k = 0 THEN 1 ELSE 10 * Pow10(k - 1)

\* the digits of s read as a decimal integer (s holds digits only)
RECURSIVE DecimalValue(_)
DecimalValue(s) ==
  IF s = <<>> THEN 0
  ELSE 10 * DecimalValue(SubSeq(s, 1, Len(s) - 1)) + DigitVal(s[Len(s)])

\* token.parse::<f64>(): [sign] digits [. digits], at least one digit
ParseF64(token) ==
  LET signed == token # <<>> /\ token[1] \in {"+", "-"}
      body   == IF signed THEN Tail(token) ELSE token
      dots   == {i \in 1..Len(body) : body[i] = "."}
      digs   == SelectSeq(body, LAMBDA c : c \in Digits)
      frac   == IF dots = {} THEN 0
                ELSE Len(body) - (CHOOSE i \in dots : TRUE)
      wellformed == /\ \A i \in 1..Len(body) : body[i] \in Digits \cup {"."}
                    /\ Cardinality(dots) <= 1
                    /\ digs # <<>>
      mag    == DecimalValue(digs)
  IN  IF ~wellformed THEN None
      ELSE Ok(Norm(IF signed /\ token[1] = "-" THEN -mag ELSE mag, Pow10(frac)))

\* token.len() == 1 && "+-*/".contains(token)
IsSubstring(t, s) ==
  \E i \in 0..(Len(s) - Len(t)) : SubSeq(s, i + 1, i + Len(t)) = t

OperatorChars == <<"+", "-", "*", "/">>

\* token.chars().next()
FirstChar(token) == IF token = <<>> THEN None ELSE Ok(token[1])

\* variant: the length test dropped
IsOperatorToken_NoLen(token) == IsSubstring(token, OperatorChars)

IsOperatorToken(token) == Len(token) = 1 /\ IsSubstring(token, OperatorChars)

(* ---------------------------- precedence, apply_operator --------------- *)
\* variant: one precedence level for all four operators
precedence_Flat(op) == IF op \in {"+", "-", "*", "/"} THEN 1 ELSE 0

precedence(op) ==
  CASE op \in {"+", "-"} -> 1
    [] op \in {"*", "/"} -> 2
    [] OTHER -> 0

\* variant: the operands taken in the other order
apply_operator_Swapped(op, pb, pa) ==
  CASE op = "+" -> Ok(FAdd(pb, pa))
    [] op = "-" -> Ok(FSub(pb, pa))
    [] op = "*" -> Ok(FMul(pb, pa))
    [] op = "/" -> IF pa = Zero THEN Err("DivisionByZero", <<>>)
                   ELSE Ok(FDiv(pb, pa))
    [] OTHER -> Panic("Unknown operator")

\* variant: the zero test made on the dividend
apply_operator_ZeroDividend(op, pb, pa) ==
  CASE op = "+" -> Ok(FAdd(pa, pb))
    [] op = "-" -> Ok(FSub(pa, pb))
    [] op = "*" -> Ok(FMul(pa, pb))
    [] op = "/" -> IF pa = Zero THEN Err("DivisionByZero", <<>>)
                   ELSE IF pb = Zero THEN Ok(<<1, 0>>)
                   ELSE Ok(FDiv(pa, pb))
    [] OTHER -> Panic("Unknown operator")

\* variant: the arm for '/' missing
apply_operator_NoDivide(op, pb, pa) ==
  CASE op = "+" -> Ok(FAdd(pa, pb))
    [] op = "-" -> Ok(FSub(pa, pb))
    [] op = "*" -> Ok(FMul(pa, pb))
    [] OTHER -> Panic("Unknown operator")

\* fn apply_operator(op: char, b: f64, a: f64): the parameters are b, a
apply_operator(op, pb, pa) ==
  CASE op = "+" -> Ok(FAdd(pa, pb))
    [] op = "-" -> Ok(FSub(pa, pb))
    [] op = "*" -> Ok(FMul(pa, pb))
    [] op = "/" -> IF pb = Zero THEN Err("DivisionByZero", <<>>)
                   ELSE Ok(FDiv(pa, pb))
    [] OTHER -> Panic("Unknown operator")

(* ---------------------------- to_rpn helpers --------------------------- *)
Last(s) == s[Len(s)]
Front(s) == SubSeq(s, 1, Len(s) - 1)

\* variant: strict comparison
ShouldPop_Strict(top_op, op) == precedence(top_op) > precedence(op)

\* the comparison of line 99
ShouldPop(top_op, op) == precedence(top_op) >= precedence(op)

\* the while-let loop of lines 97-104: <<output, operators>> after it
RECURSIVE PopWhile(_, _, _)
PopWhile(out, ops, op) ==
  IF ops # <<>> /\ ShouldPop(Last(ops), op)
  THEN PopWhile(Append(out, Operator(Last(ops))), Front(ops), op)
  ELSE <<out, ops>>

\* variant: only the top operator is moved to the output
PopAll_One(out, ops) ==
  IF ops = <<>> THEN out ELSE Append(out, Operator(Last(ops)))

\* the while-let loop of lines 112-114
RECURSIVE PopAll(_, _)
PopAll(out, ops) ==
  IF ops = <<>> THEN out
  ELSE PopAll(Append(out, Operator(Last(ops))), Front(ops))

(* ---------------------------- evaluate_rpn helpers --------------------- *)
\* variants: the guard off by one, either way
NotEnoughOperands_One(st) == Len(st) < 1
NotEnoughOperands_Three(st) == Len(st) < 3

\* the guard of line 126
NotEnoughOperands(st) == Len(st) < 2

\* variant: only the empty stack is an error
FinalResult_NonEmpty(st) ==
  IF st = <<>> THEN Err("TooManyOperators", <<>>) ELSE Ok(st[1])

\* lines 140-144
FinalResult(st) ==
  IF Len(st) # 1 THEN Err("TooManyOperators", <<>>) ELSE Ok(st[1])

\* Vec::pop: <<popped option, remaining vector>>
Pop(st) == IF st = <<>> THEN <<None, st>> ELSE <<Ok(Last(st)), Front(st)>>

(* ---------------------------- inputs ----------------------------------- *)
NumberWords == {<<"0">>, <<"2">>, <<"3">>, <<"1", "0">>}
OperatorWords == {<<"+">>, <<"-">>, <<"*">>, <<"/">>}
OtherWords == {<<"f", "i", "v", "e">>, <<"+", "-">>, <<>>, <<"-", "3">>,
               <<"0", ".", "5">>, <<".">>, <<"%">>}

SeqsUpTo(S, n) == UNION {[1..k -> S] : k \in 0..n}

RECURSIVE Infix(_)
Infix(k) ==
  IF k = 0 THEN {<<n>> : n \in NumberWords}
  ELSE {s \o <<o, n>> : s \in Infix(k - 1), o \in OperatorWords, n \in NumberWords}

Lines ==
  SeqsUpTo(NumberWords \cup OperatorWords \cup OtherWords, MaxRawLen)
    \cup SeqsUpTo(NumberWords \cup OperatorWords, MaxLen)
    \cup UNION {Infix(k) : k \in 0..MaxOps}

\* Token vectors a caller can build itself: Token is a public enum over any char
DirectTokens == {Number(<<0, 1>>), Number(<<2, 1>>), Operator("-"),
                 Operator("/"), Operator("%")}

TokenLines == SeqsUpTo(DirectTokens, MaxDirect)

(* ---------------------------- state machine ---------------------------- *)
Init ==
  /\ pc = "idle"
  /\ entry = "none"
  /\ expression = <<>>
  /\ pi = 1
  /\ tokens = <<>>
  /\ parsed = None
  /\ ti = 1
  /\ output = <<>>
  /\ operators = <<>>
  /\ rpn_tokens = <<>>
  /\ ei = 1
  /\ stack = <<>>
  /\ a = None
  /\ b = None
  /\ result = None

\* the caller hands a vector of raw tokens to parse_expression
CallParse ==
  /\ pc = "idle"
  /\ \E line \in Lines : expression' = line
  /\ entry' = "parse_expression"
  /\ pc' = "parse"
  /\ UNCHANGED <<pi, tokens, parsed, ti, output, operators, rpn_tokens, ei,
                 stack, a, b, result>>

\* the caller hands a token slice of its own to evaluate_expression
CallEvaluate ==
  /\ pc = "idle"
  /\ \E toks \in TokenLines : parsed' = Ok(toks)
  /\ entry' = "evaluate_expression"
  /\ pc' = "to_rpn"
  /\ UNCHANGED <<expression, pi, tokens, ti, output, operators, rpn_tokens,
                 ei, stack, a, b, result>>

\* one iteration of the for loop of parse_expression
ParseToken ==
  /\ pc = "parse"
  /\ pi <= Len(expression)
  /\ LET token == expression[pi]
         num   == ParseF64(token)
     IN  IF num.kind = "Ok"
         THEN /\ tokens' = Append(tokens, Number(num.value))
              /\ pi' = pi + 1
              /\ UNCHANGED <<pc, parsed>>
         ELSE IF IsOperatorToken(token)
         THEN IF FirstChar(token) = None
              THEN /\ parsed' = Panic("unwrap on None")
                   /\ pc' = "done"
                   /\ UNCHANGED <<pi, tokens>>
              ELSE /\ tokens' = Append(tokens, Operator(FirstChar(token).value))
                   /\ pi' = pi + 1
                   /\ UNCHANGED <<pc, parsed>>
         ELSE /\ parsed' = Err("InvalidExpression", token)
              /\ pc' = "done"
              /\ UNCHANGED <<pi, tokens>>
  /\ UNCHANGED <<entry, expression, ti, output, operators, rpn_tokens, ei, stack,
                 a, b, result>>

\* the end of parse_expression; on Ok the caller calls evaluate_expression
ParseReturn ==
  /\ pc = "parse"
  /\ pi > Len(expression)
  /\ IF tokens = <<>>
     THEN /\ parsed' = Err("EmptyExpression", <<>>)
          /\ pc' = "done"
     ELSE /\ parsed' = Ok(tokens)
          /\ pc' = "to_rpn"
  /\ UNCHANGED <<entry, expression, pi, tokens, ti, output, operators, rpn_tokens,
                 ei, stack, a, b, result>>

\* one iteration of the for loop of to_rpn
RpnToken ==
  /\ pc = "to_rpn"
  /\ ti <= Len(parsed.value)
  /\ LET token == parsed.value[ti]
     IN  IF token.type = "Number"
         THEN /\ output' = Append(output, token)
              /\ UNCHANGED operators
         ELSE LET r == PopWhile(output, operators, token.op)
              IN  /\ output' = r[1]
                  /\ operators' = Append(r[2], token.op)
  /\ ti' = ti + 1
  /\ UNCHANGED <<pc, entry, expression, pi, tokens, parsed, rpn_tokens, ei, stack,
                 a, b, result>>

\* the final loop of to_rpn and its return into evaluate_expression
RpnReturn ==
  /\ pc = "to_rpn"
  /\ ti > Len(parsed.value)
  /\ output' = PopAll(output, operators)
  /\ operators' = <<>>
  /\ rpn_tokens' = output'
  /\ pc' = "eval"
  /\ UNCHANGED <<entry, expression, pi, tokens, parsed, ti, ei, stack, a, b, result>>

\* one iteration of the for loop of evaluate_rpn
EvalToken ==
  /\ pc = "eval"
  /\ ei <= Len(rpn_tokens)
  /\ LET token == rpn_tokens[ei]
     IN  IF token.type = "Number"
         THEN /\ stack' = Append(stack, token.value)
              /\ ei' = ei + 1
              /\ UNCHANGED <<pc, a, b, result>>
         ELSE IF NotEnoughOperands(stack)
         THEN /\ result' = Err("InvalidExpression", NotEnoughOperandsMsg)
              /\ pc' = "done"
              /\ UNCHANGED <<ei, stack, a, b>>
         ELSE LET p1 == Pop(stack)
                  p2 == Pop(p1[2])
              IN  IF p1[1] = None \/ p2[1] = None
                  THEN /\ result' = Panic("unwrap on None")
                       /\ pc' = "done"
                       /\ a' = p1[1]
                       /\ b' = p2[1]
                       /\ stack' = p2[2]
                       /\ UNCHANGED ei
                  ELSE LET r == apply_operator(token.op, p1[1].value, p2[1].value)
                       IN  /\ a' = p1[1]
                           /\ b' = p2[1]
                           /\ IF r.kind = "Ok"
                              THEN /\ stack' = Append(p2[2], r.value)
                                   /\ ei' = ei + 1
                                   /\ UNCHANGED <<pc, result>>
                              ELSE /\ stack' = p2[2]
                                   /\ result' = r
                                   /\ pc' = "done"
                                   /\ UNCHANGED ei
  /\ UNCHANGED <<entry, expression, pi, tokens, parsed, ti, output, operators,
                 rpn_tokens>>

\* the end of evaluate_rpn
EvalReturn ==
  /\ pc = "eval"
  /\ ei > Len(rpn_tokens)
  /\ result' = FinalResult(stack)
  /\ pc' = "done"
  /\ UNCHANGED <<entry, expression, pi, tokens, parsed, ti, output, operators,
                 rpn_tokens, ei, stack, a, b>>

\* the caller prints the outcome; every local is dropped
Report ==
  /\ pc = "done"
  /\ pc' = "idle"
  /\ entry' = "none"
  /\ expression' = <<>>
  /\ pi' = 1
  /\ tokens' = <<>>
  /\ parsed' = None
  /\ ti' = 1
  /\ output' = <<>>
  /\ operators' = <<>>
  /\ rpn_tokens' = <<>>
  /\ ei' = 1
  /\ stack' = <<>>
  /\ a' = None
  /\ b' = None
  /\ result' = None

Next ==
  \/ CallParse
  \/ CallEvaluate
  \/ ParseToken
  \/ ParseReturn
  \/ RpnToken
  \/ RpnReturn
  \/ EvalToken
  \/ EvalReturn
  \/ Report

Spec == Init /\ [][Next]_vars

TypeOK ==
  /\ pc \in {"idle", "parse", "to_rpn", "eval", "done"}
  /\ entry \in {"none", "parse_expression", "evaluate_expression"}
  /\ result.kind \in {"None", "Ok", "Err", "Panic"}

(* ---------------------------- reference semantics ---------------------- *)
FourOperators == {"+", "-", "*", "/"}
Additive == {"+", "-"}

IsNumber(t) == t.type = "Number"
IsOperator(t) == t.type = "Operator"

\* numbers and the four operators only
Recognised(s) ==
  \A i \in 1..Len(s) : IsNumber(s[i]) \/ (IsOperator(s[i]) /\ s[i].op \in FourOperators)

\* n1 o1 n2 ... ok n(k+1): strictly alternating, starting and ending on a number
WellFormed(s) ==
  /\ Recognised(s)
  /\ Len(s) % 2 = 1
  /\ \A i \in 1..Len(s) : IsNumber(s[i]) <=> (i % 2 = 1)

SetMax(S) == CHOOSE x \in S : \A y \in S : y <= x

\* the operator applied last in a well-formed s of length >= 3: the rightmost
\* additive operator, or the rightmost operator when there is no additive one
Root(s) ==
  LET adds == {i \in 1..Len(s) : IsOperator(s[i]) /\ s[i].op \in Additive}
      all  == {i \in 1..Len(s) : IsOperator(s[i])}
  IN  IF adds # {} THEN SetMax(adds) ELSE SetMax(all)

Undefined == [kind |-> "Undefined"]

\* x op y on fractions, Undefined for a division by zero
Combine(x, op, y) ==
  IF op = "+" THEN Ok(<<x[1] * y[2] + y[1] * x[2], x[2] * y[2]>>)
  ELSE IF op = "-" THEN Ok(<<x[1] * y[2] - y[1] * x[2], x[2] * y[2]>>)
  ELSE IF op = "*" THEN Ok(<<x[1] * y[1], x[2] * y[2]>>)
  ELSE IF y[1] = 0 THEN Undefined
  ELSE Ok(<<x[1] * y[2], x[2] * y[1]>>)

\* the value of a well-formed s under the usual rules, Undefined when some
\* division has a zero divisor
RECURSIVE InfixValue(_)
InfixValue(s) ==
  IF Len(s) = 1 THEN Ok(s[1].value)
  ELSE LET k  == Root(s)
           l  == InfixValue(SubSeq(s, 1, k - 1))
           r  == InfixValue(SubSeq(s, k + 1, Len(s)))
           op == s[k].op
       IN  IF l = Undefined \/ r = Undefined THEN Undefined
           ELSE Combine(l.value, op, r.value)

\* equality of fractions that need not be in lowest terms
SameValue(x, y) == x[2] # 0 /\ y[2] # 0 /\ x[1] * y[2] = y[1] * x[2]

\* the postfix form of the left-associative, precedence-respecting parse
RECURSIVE InfixPostfix(_)
InfixPostfix(s) ==
  IF Len(s) = 1 THEN s
  ELSE LET k == Root(s)
       IN  InfixPostfix(SubSeq(s, 1, k - 1)) \o InfixPostfix(SubSeq(s, k + 1, Len(s)))
             \o <<s[k]>>

Count(s, t) == Cardinality({i \in 1..Len(s) : s[i] = t})

ViaParse == entry = "parse_expression"
Evaluated == pc = "done" /\ result # None

(* ---------------------------- C1 --------------------------------------- *)
\* C1: for every well-formed infix sequence in which no division has a zero
\* divisor, parse_expression followed by evaluate_expression returns Ok(v),
\* v being the value under the usual rules: * and / before + and -, equal
\* precedence left to right.
C1_InfixValue ==
  (pc = "done" /\ ViaParse /\ parsed.kind = "Ok" /\ WellFormed(parsed.value)
     /\ InfixValue(parsed.value) # Undefined)
    => /\ result.kind = "Ok"
       /\ SameValue(result.value, InfixValue(parsed.value).value)

\* 10 - 3 - 2 has been evaluated to 5
C1_Witness ==
  /\ pc = "done"
  /\ expression = <<(<<"1", "0">>), (<<"-">>), (<<"3">>), (<<"-">>), (<<"2">>)>>
  /\ result = Ok(<<5, 1>>)

(* ---------------------------- C7 --------------------------------------- *)
ClaimedPrecedence(op) == IF op \in Additive THEN 1 ELSE 2

C9_Rearrangement ==
  (pc \in {"eval", "done"} /\ parsed.kind = "Ok" /\ Recognised(parsed.value))
    => /\ Len(rpn_tokens) = Len(parsed.value)
       /\ SelectSeq(rpn_tokens, IsNumber) = SelectSeq(parsed.value, IsNumber)
       /\ \A c \in FourOperators :
            Count(rpn_tokens, Operator(c)) = Count(parsed.value, Operator(c))
       /\ operators = <<>>
       /\ (\A i \in 1..Len(parsed.value) : IsNumber(parsed.value[i]))
            => rpn_tokens = parsed.value

\* a malformed sequence with two pending operators has been converted
C9_Witness ==
  /\ pc = "eval"
  /\ parsed.kind = "Ok"
  /\ Len(parsed.value) = 4
  /\ IsOperator(parsed.value[1])
  /\ IsOperator(parsed.value[2])
  /\ parsed.value[1] # parsed.value[2]
  /\ rpn_tokens # parsed.value
(* ---------------------------- C2 --------------------------------------- *)
\* the decimal literals among the input words and the numbers they denote
LiteralValue(w) ==
  CASE w = <<"0">> -> <<0, 1>>
    [] w = <<"2">> -> <<2, 1>>
    [] w = <<"3">> -> <<3, 1>>
    [] w = <<"1", "0">> -> <<10, 1>>
    [] w = <<"-", "3">> -> <<-3, 1>>
    [] w = <<"0", ".", "5">> -> <<1, 2>>

Literals == {<<"0">>, <<"2">>, <<"3">>, <<"1", "0">>, <<"-", "3">>, <<"0", ".", "5">>}
OperatorLiterals == {<<"+">>, <<"-">>, <<"*">>, <<"/">>}

ExpectedToken(w) == IF w \in Literals THEN Number(LiteralValue(w)) ELSE Operator(w[1])

Offending(e) == {i \in 1..Len(e) : e[i] \notin Literals \cup OperatorLiterals}

SetMin(S) == CHOOSE x \in S : \A y \in S : x <= y

DefinedErrors == {"InvalidExpression", "EmptyExpression", "DivisionByZero",
                  "TooManyOperators"}

\* the number of loop iterations and returns still ahead of the call
Measure ==
  CASE pc = "idle" -> 0
    [] pc = "done" -> 1
    [] pc = "eval" -> 2 + (Len(rpn_tokens) + 1 - ei)
    [] pc = "to_rpn" -> 4 + Len(parsed.value) + (Len(parsed.value) + 1 - ti)
    [] pc = "parse" -> 6 + 2 * Len(expression) + (Len(expression) + 1 - pi)

\* some step of the call in progress can be taken
Running ==
  ENABLED (ParseToken \/ ParseReturn \/ RpnToken \/ RpnReturn \/ EvalToken
             \/ EvalReturn \/ Report)

\* C3: for every non-empty sequence of numbers and the four operators, in any
\* arrangement, parse_expression followed by evaluate_expression terminates
\* with Ok(value) or one of the four defined errors; the panic branch of
\* apply_operator and a pop from an empty stack are never reached.
C3_NoFault ==
  /\ [](ViaParse => /\ result.kind # "Panic"
                    /\ parsed.kind # "Panic"
                    /\ a # None => b # None
                    /\ Measure >= 0
                    /\ Running)
  /\ []((ViaParse /\ pc = "done" /\ expression # <<>> /\ Offending(expression) = {})
          => /\ parsed.kind = "Ok"
             /\ result.kind \in {"Ok", "Err"}
             /\ result.kind = "Err" => result.error \in DefinedErrors)
  /\ [][(ViaParse /\ pc # "idle") => Measure' < Measure]_vars

\* a sequence with more operators than operands has run to an outcome
C3_Witness ==
  /\ ViaParse
  /\ pc = "done"
  /\ Len(expression) = 4
  /\ parsed.kind = "Ok"
  /\ Cardinality({i \in 1..4 : IsOperator(parsed.value[i])}) = 3
  /\ result.kind = "Err"

(* ---------------------------- C4 --------------------------------------- *)
DivisionByZero == Err("DivisionByZero", <<>>)

DividingByZero ==
  /\ pc = "eval"
  /\ ei <= Len(rpn_tokens)
  /\ rpn_tokens[ei] = Operator("/")
  /\ Len(stack) >= 2
  /\ Last(stack)[1] = 0

\* C4: when '/' is applied and the later-pushed operand is zero, evaluation
\* stops at that operator with DivisionByZero and no quotient, whatever the
\* dividend and the following tokens; DivisionByZero is returned only then.
C4_DivisionByZero ==
  /\ [][DividingByZero
          => /\ result' = DivisionByZero
             /\ pc' = "done"
             /\ ei' = ei
             /\ stack' = SubSeq(stack, 1, Len(stack) - 2)]_vars
  /\ [][(result' = DivisionByZero /\ result # DivisionByZero) => DividingByZero]_vars

\* a division of a non-zero dividend by zero, with tokens left unprocessed
C4_Witness ==
  /\ pc = "done"
  /\ result = DivisionByZero
  /\ ei < Len(rpn_tokens)
  /\ b.value # Zero

(* ---------------------------- C5 --------------------------------------- *)
TooManyOperators == Err("TooManyOperators", <<>>)

\* C5: after every postfix token has been processed without error,
\* evaluate_rpn returns Ok(v) exactly when the stack holds exactly one value v
\* and TooManyOperators when it holds zero or more than one; a single
\* Number(x) evaluates to Ok(x) with no operator applied.
C5_FinalStack ==
  /\ [][(pc = "eval" /\ ei > Len(rpn_tokens))
          => /\ pc' = "done"
             /\ result' = IF Len(stack) = 1 THEN Ok(stack[1]) ELSE TooManyOperators]_vars
  /\ [](result = TooManyOperators => (ei > Len(rpn_tokens) /\ Len(stack) # 1))
  /\ []((pc = "done" /\ parsed.kind = "Ok" /\ Len(parsed.value) = 1
           /\ IsNumber(parsed.value[1]))
          => (result = Ok(parsed.value[1].value) /\ a = None /\ b = None))

\* three numbers and one operator leave two values on the stack
C5_Witness ==
  /\ pc = "done"
  /\ result = TooManyOperators
  /\ Len(stack) = 2
  /\ a # None

(* ---------------------------- C6 --------------------------------------- *)
InsufficientOperands == Err("InvalidExpression", NotEnoughOperandsMsg)

Underflowing ==
  /\ pc = "eval"
  /\ ei <= Len(rpn_tokens)
  /\ IsOperator(rpn_tokens[ei])
  /\ Len(stack) < 2

\* C6: an Operator token reached with fewer than two values on the stack makes
\* evaluate_rpn return InvalidExpression (insufficient operands) at that
\* token, before popping anything and without processing any later token;
\* that error, not TooManyOperators and not a panic, is what too few operands
\* yield.
C6_InsufficientOperands ==
  /\ [][Underflowing
          => /\ result' = InsufficientOperands
             /\ pc' = "done"
             /\ stack' = stack
             /\ ei' = ei]_vars
  /\ [][(result' = InsufficientOperands /\ result # InsufficientOperands)
          => Underflowing]_vars

\* an operator met one operand, with tokens left unprocessed
C6_Witness ==
  /\ pc = "done"
  /\ result = InsufficientOperands
  /\ Len(stack) = 1
  /\ ei < Len(rpn_tokens)

(* ---------------------------- C8 --------------------------------------- *)
Applying ==
  /\ pc = "eval"
  /\ ei <= Len(rpn_tokens)
  /\ IsOperator(rpn_tokens[ei])
  /\ rpn_tokens[ei].op \in FourOperators
  /\ Len(stack) >= 2
  /\ Combine(stack[Len(stack) - 1], rpn_tokens[ei].op, Last(stack)) # Undefined

\* C8: the operand pushed earlier is the left operand and the one pushed later
\* the right operand: [x, y, op] gives x op y, never y op x, and the result
\* replaces the two operands on the stack.
C8_OperandOrder ==
  /\ [][Applying
          => /\ Len(stack') = Len(stack) - 1
             /\ SubSeq(stack', 1, Len(stack) - 2) = SubSeq(stack, 1, Len(stack) - 2)
             /\ SameValue(Last(stack'),
                           Combine(stack[Len(stack) - 1], rpn_tokens[ei].op,
                                   Last(stack)).value)]_vars
  /\ []((pc = "done" /\ Len(rpn_tokens) = 3 /\ Recognised(rpn_tokens)
           /\ IsNumber(rpn_tokens[1]) /\ IsNumber(rpn_tokens[2])
           /\ IsOperator(rpn_tokens[3])
           /\ Combine(rpn_tokens[1].value, rpn_tokens[3].op, rpn_tokens[2].value)
                 # Undefined)
          => /\ result.kind = "Ok"
             /\ SameValue(result.value,
                           Combine(rpn_tokens[1].value, rpn_tokens[3].op,
                                   rpn_tokens[2].value).value))

\* 10 3 / has been evaluated to 10/3
C8_Witness ==
  /\ pc = "done"
  /\ rpn_tokens = <<Number(<<10, 1>>), Number(<<3, 1>>), Operator("/")>>
  /\ result = Ok(<<10, 3>>)

(* ---------------------------- C10 -------------------------------------- *)
\* the outcome of the well-formed x o y
Outcome(x, o, y) ==
  IF Combine(x, o, y) = Undefined THEN DivisionByZero ELSE Combine(x, o, y)

SameOutcome(r, e) ==
  IF e.kind = "Ok" THEN r.kind = "Ok" /\ SameValue(r.value, e.value) ELSE r = e

Shape(s, shape) ==
  /\ Recognised(s)
  /\ Len(s) = Len(shape)
  /\ \A i \in 1..Len(s) : IsNumber(s[i]) <=> (shape[i] = "n")

====
